---- MODULE Spec2Model ----
(***************************************************************************)
(* Hex-grid treasure hunt (map.py, search.py): the grid model, the         *)
(* uniform-cost search, the permutation route planner and the game loop.   *)
(*                                                                         *)
(* Cells are <<r, c>> with the source's 0-based indices; a grid is a       *)
(* sequence of rows, each a sequence of tile symbols, so the tile of       *)
(* (r, c) is g[r+1][c+1].  Costs are counted in halves: the model's cost   *)
(* is twice the program's float (1.0 -> 2, 2.0 -> 4, 0.5 -> 1), which      *)
(* keeps every sum of step costs exact, as it is in binary floating point. *)
(***************************************************************************)
EXTENDS Integers, Sequences, FiniteSets, TLC

VARIABLES
  grid,                 \* the module-level grid (main clears treasures in it)
  health,               \* map.py 194
  collected_treasures,  \* map.py 195
  all_treasures,        \* map.py 196
  player,               \* main: (player_r, player_c)
  path,                 \* main: the route being followed
  running,              \* main: the loop flag
  outcome,              \* main: the message printed when the game ends
  ticks, clicks,        \* loop iterations and route requests so far
  op, args, ret         \* the planner operation last called, its inputs, its result

vars == <<grid, health, collected_treasures, all_treasures, player, path,
          running, outcome, ticks, clicks, op, args, ret>>

mainVars == <<health, collected_treasures, all_treasures, player, path,
              running, outcome, ticks, clicks>>

\* ------------------------------------------------------------ map.py 8-13
START    == "S"
TREASURE == "T"
BLOCKED  == "#"
TRAPS    == {"X1", "X2", "X3", "X4"}
REWARDS  == {"R1", "R2"}
EMPTY    == ""

\* The program's map (map.py 16-24).
GRID ==
  << <<"",  "",   "",   "",   "",   "",   "",   "",   "",   "">>,
     <<"S", "X2", "",   "X4", "R1", "",   "",   "",   "",   "">>,
     <<"",  "",   "",   "",   "T",  "",   "X3", "R2", "#",  "">>,
     <<"",  "R1", "#",  "#",  "#",  "X3", "",   "T",  "X1", "T">>,
     <<"#", "",   "",   "T",  "",   "",   "#",  "#",  "",   "">>,
     <<"",  "",   "X2", "",   "#",  "R2", "#",  "",   "",   "">>,
     <<"",  "",   "",   "",   "",   "",   "",   "",   "",   "">> >>

ROWS(g) == Len(g)
COLS(g) == Len(g[1])

Tile(g, cell) == g[cell[1] + 1][cell[2] + 1]

Cells(g) == (0 .. ROWS(g) - 1) \X (0 .. COLS(g) - 1)

Range(l) == { l[i] : i \in 1 .. Len(l) }

\* float('inf'): no finite cost equals it, and every finite cost is below it.
INF == -1
Less(a, b) == a # INF /\ (b = INF \/ a < b)

\* ------------------------------------------------------------ get_neighbors
\* map.py 99-101: the four cardinal offsets, then the two diagonals of the
\* column's parity.
dirs_sameForBothParities(c) ==
  << <<-1, 0>>, <<1, 0>>, <<0, -1>>, <<0, 1>>, <<-1, -1>>, <<-1, 1>> >>

dirs(c) ==
  LET even == (c % 2 = 0)
  IN  << <<-1, 0>>, <<1, 0>>, <<0, -1>>, <<0, 1>> >>
        \o (IF even THEN << <<(IF even THEN -1 ELSE 0), -1>>,
                            <<(IF even THEN -1 ELSE 0), 1>> >>
                    ELSE << <<1, -1>>, <<1, 1>> >>)

\* map.py 105: the test a candidate passes to become a neighbour.
Passable_ignoringBlocked(g, nr, nc) ==
  0 <= nr /\ nr < ROWS(g) /\ 0 <= nc /\ nc < COLS(g)

Passable(g, nr, nc) ==
  0 <= nr /\ nr < ROWS(g) /\ 0 <= nc /\ nc < COLS(g) /\ g[nr + 1][nc + 1] # BLOCKED

RECURSIVE NeighborsFrom(_, _, _, _, _)
NeighborsFrom(g, r, c, ds, i) ==
  IF i > Len(ds) THEN <<>>
  ELSE LET nr == r + ds[i][1]
           nc == c + ds[i][2]
           rest == NeighborsFrom(g, r, c, ds, i + 1)
       IN  IF Passable(g, nr, nc) THEN << <<nr, nc>> >> \o rest ELSE rest

get_neighbors(g, r, c) == NeighborsFrom(g, r, c, dirs(c), 1)

\* ------------------------------------------------------------ ucs
\* The cost of entering a tile, in halves.  BASE is step_cost = 1.0.
BASE == 2

\* map.py 171-177
step_cost(tile) ==
  IF tile \in TRAPS THEN BASE * 2
  ELSE IF tile \in REWARDS THEN BASE \div 2
  ELSE BASE

\* search.py 48-53: only X1 and X2 double.
search_step_cost(tile) ==
  IF tile = "X1" \/ tile = "X2" THEN BASE * 2
  ELSE IF tile = "R1" \/ tile = "R2" THEN BASE \div 2
  ELSE BASE

StepCostOf(mod, tile) ==
  IF mod = "map" THEN step_cost(tile) ELSE search_step_cost(tile)

\* Python's order on (cost, (r, c)) tuples, of which heapq pops the least.
EntryLeq(e, f) ==
  \/ e[1] < f[1]
  \/ /\ e[1] = f[1]
     /\ \/ e[2][1] < f[2][1]
        \/ e[2][1] = f[2][1] /\ e[2][2] <= f[2][2]

\* A frontier that hands out its most expensive entry first.
heappop_largest(open_set) ==
  CHOOSE e \in open_set : \A f \in open_set : EntryLeq(f, e)

\* heapq.heappop: the least entry.  No entry is pushed twice (a cell is pushed
\* again only with a strictly lower cost), so the heap is a set.
heappop(open_set) ==
  CHOOSE e \in open_set : \A f \in open_set : EntryLeq(e, f)

\* The for-loop over the neighbours of the popped cell (map.py 169-183).
\* came_from and cost_so_far are dicts: functions whose DOMAIN is their keys.
RECURSIVE Relax(_, _, _, _, _, _, _)
Relax(g, mod, st, current, current_cost, nbrs, i) ==
  IF i > Len(nbrs) THEN st
  ELSE LET neighbor == nbrs[i]
           new_cost == current_cost + StepCostOf(mod, Tile(g, neighbor))
       IN  IF neighbor \notin DOMAIN st.cost_so_far
              \/ new_cost < st.cost_so_far[neighbor]
           THEN Relax(g, mod,
                      [open_set    |-> st.open_set \cup {<<new_cost, neighbor>>},
                       came_from   |-> (neighbor :> current) @@ st.came_from,
                       cost_so_far |-> (neighbor :> new_cost) @@ st.cost_so_far,
                       returned    |-> st.returned],
                      current, current_cost, nbrs, i + 1)
           ELSE Relax(g, mod, st, current, current_cost, nbrs, i + 1)

\* A walk back that also appends the cell it stops at (the start).
RECURSIVE Reconstruct_withStart(_, _)
Reconstruct_withStart(came_from, current) ==
  IF current \in DOMAIN came_from
  THEN Append(Reconstruct_withStart(came_from, came_from[current]), current)
  ELSE <<current>>

\* The walk back along came_from (map.py 162-166), already reversed.
RECURSIVE Reconstruct(_, _)
Reconstruct(came_from, current) ==
  IF current \in DOMAIN came_from
  THEN Append(Reconstruct(came_from, came_from[current]), current)
  ELSE <<>>

\* map.py 185
NotFound_zeroCost == [path |-> <<>>, cost |-> 0]

NotFound == [path |-> <<>>, cost |-> INF]

\* One iteration of the while-loop (map.py 158-183), and its exit when the
\* frontier is empty (map.py 185).  st.returned holds the value returned, once
\* the function has returned.
UcsStep(g, mod, goal, st) ==
  IF st.open_set = {} THEN [st EXCEPT !.returned = <<NotFound>>]
  ELSE LET e == heappop(st.open_set)
           current_cost == e[1]
           current == e[2]
           popped == [st EXCEPT !.open_set = st.open_set \ {e}]
       IN  IF current = goal
           THEN [st EXCEPT !.returned =
                   << [path |-> Reconstruct(st.came_from, current),
                       cost |-> st.cost_so_far[goal]] >>]
           ELSE Relax(g, mod, popped, current, current_cost,
                      get_neighbors(g, current[1], current[2]), 1)

\* The loop: up to n iterations, stopping at the return.  The run is halved
\* rather than unrolled one iteration per level, which keeps the evaluation
\* shallow on the 70-cell map.
RECURSIVE UcsLoop(_, _, _, _, _)
UcsLoop(g, mod, goal, st, n) ==
  IF st.returned # <<>> THEN st
  ELSE IF n <= 1 THEN UcsStep(g, mod, goal, st)
  ELSE UcsLoop(g, mod, goal, UcsLoop(g, mod, goal, st, n \div 2), n - n \div 2)

\* Each iteration pops one entry, and a cell is pushed at most once from each
\* of its at most six neighbours (and the start once more): the loop has
\* returned after 6 * cells + 2 iterations.
UcsRun(g, mod, start, goal) ==
  UcsLoop(g, mod, goal,
          [open_set    |-> {<<0, start>>},
           came_from   |-> <<>>,
           cost_so_far |-> (start :> 0),
           returned    |-> <<>>],
          6 * ROWS(g) * COLS(g) + 2).returned[1]

\* map.py 153-185
ucs(g, start, goal) == UcsRun(g, "map", start, goal)

\* search.py 28-61
search_ucs(g, start, goal) == UcsRun(g, "search", start, goal)

\* ------------------------------------------------------------ find_best_treasure_path
RemoveAt(s, i) == SubSeq(s, 1, i - 1) \o SubSeq(s, i + 1, Len(s))

\* itertools.permutations of a list, in the order it yields them.
RECURSIVE permutations(_)
RECURSIVE PermsFrom(_, _)
RECURSIVE Prefixed(_, _, _)
Prefixed(x, ps, i) ==
  IF i > Len(ps) THEN <<>> ELSE << <<x>> \o ps[i] >> \o Prefixed(x, ps, i + 1)
PermsFrom(s, i) ==
  IF i > Len(s) THEN <<>>
  ELSE Prefixed(s[i], permutations(RemoveAt(s, i)), 1) \o PermsFrom(s, i + 1)
permutations(s) == IF Len(s) = 0 THEN << <<>> >> ELSE PermsFrom(s, 1)

\* A segment loop that keeps going past a target it cannot reach.
RECURSIVE VisitTargets_keepGoing(_, _, _, _)
VisitTargets_keepGoing(g, order, i, acc) ==
  IF i > Len(order) THEN acc
  ELSE LET seg == ucs(g, acc.current_pos, order[i])
       IN  IF seg.path = <<>>
           THEN VisitTargets_keepGoing(g, order, i + 1, acc)
           ELSE VisitTargets_keepGoing(g, order, i + 1,
                  [valid       |-> acc.valid,
                   total_path  |-> acc.total_path \o seg.path,
                   total_cost  |-> acc.total_cost + seg.cost,
                   current_pos |-> order[i]])

\* The inner loop over one ordering's targets (map.py 127-134).
RECURSIVE VisitTargets(_, _, _, _)
VisitTargets(g, order, i, acc) ==
  IF i > Len(order) THEN acc
  ELSE LET seg == ucs(g, acc.current_pos, order[i])
       IN  IF seg.path = <<>>
           THEN [acc EXCEPT !.valid = FALSE]
           ELSE VisitTargets(g, order, i + 1,
                  [valid       |-> acc.valid,
                   total_path  |-> acc.total_path \o seg.path,
                   total_cost  |-> acc.total_cost + seg.cost,
                   current_pos |-> order[i]])

\* A return leg that is put in front of the route instead of after it.
ReturnLeg_prepended(g, acc, start_pos, return_to_start) ==
  IF acc.valid /\ return_to_start
  THEN LET back == ucs(g, acc.current_pos, start_pos)
       IN  IF back.path # <<>>
           THEN [acc EXCEPT !.total_path = back.path \o @,
                            !.total_cost = @ + back.cost]
           ELSE [acc EXCEPT !.valid = FALSE]
  ELSE acc

\* The optional leg back to the start (map.py 137-143).
ReturnLeg(g, acc, start_pos, return_to_start) ==
  IF acc.valid /\ return_to_start
  THEN LET back == ucs(g, acc.current_pos, start_pos)
       IN  IF back.path # <<>>
           THEN [acc EXCEPT !.total_path = @ \o back.path,
                            !.total_cost = @ + back.cost]
           ELSE [acc EXCEPT !.valid = FALSE]
  ELSE acc

\* One iteration of the loop over orderings, up to the comparison (map.py 121-143).
TryOrder(g, start_pos, order, return_to_start) ==
  ReturnLeg(g,
            VisitTargets(g, order, 1,
                         [valid |-> TRUE, total_path |-> <<>>, total_cost |-> 0,
                          current_pos |-> start_pos]),
            start_pos, return_to_start)

\* The loop over orderings with its strict comparison (map.py 120-148).
RECURSIVE BestOver(_, _, _, _, _, _)
BestOver(g, start_pos, orders, return_to_start, i, best) ==
  IF i > Len(orders) THEN best
  ELSE LET t == TryOrder(g, start_pos, orders[i], return_to_start)
       IN  BestOver(g, start_pos, orders, return_to_start, i + 1,
                    IF t.valid /\ Less(t.total_cost, best.min_total_cost)
                    THEN [best_path |-> t.total_path, min_total_cost |-> t.total_cost]
                    ELSE best)

\* map.py 112-150
find_best_treasure_path(g, start_pos, treasures, return_to_start) ==
  IF treasures = <<>> THEN <<>>
  ELSE BestOver(g, start_pos, permutations(treasures), return_to_start, 1,
                [best_path |-> <<>>, min_total_cost |-> INF]).best_path

\* ------------------------------------------------------------ module state
\* map.py 90-95
RECURSIVE FindStartFrom(_, _)
FindStartFrom(g, k) ==
  IF k >= ROWS(g) * COLS(g) THEN <<0, 0>>
  ELSE LET cell == <<k \div COLS(g), k % COLS(g)>>
       IN  IF Tile(g, cell) = START THEN cell ELSE FindStartFrom(g, k + 1)

find_start(g) == FindStartFrom(g, 0)

\* The state once the module is loaded and main has read the start position
\* (map.py 194-196 and 296-298), for the grid g.
Loaded(g) ==
  /\ grid = g
  /\ health = 10
  /\ collected_treasures = {}
  /\ all_treasures = {cell \in Cells(g) : Tile(g, cell) = TREASURE}
  /\ player = find_start(g)
  /\ path = <<>>
  /\ running = TRUE
  /\ outcome = ""
  /\ ticks = 0
  /\ clicks = 0
  /\ op = "init"
  /\ args = <<>>
  /\ ret = <<>>

\* ------------------------------------------------------------ bounds
MaxRows == 3
MaxCols == 3
MaxSpecial == 2
PlanRows == 2
PlanCols == 3
PlanSpecial == 2
MaxTargets == 2

\* The tiles a generated grid may carry besides EMPTY: a wall, a trap both
\* searches double, a trap only map.py doubles, a reward.
Kinds == {BLOCKED, "X1", "X3", "R1"}

\* Every rows x cols grid with at most k tiles that are not EMPTY.
GridsOf(rows, cols, k) ==
  LET cs == (1 .. rows) \X (1 .. cols)
  IN  { [r \in 1 .. rows |-> [c \in 1 .. cols |->
            IF <<r, c>> \in DOMAIN f THEN f[<<r, c>>] ELSE EMPTY]] :
        f \in UNION { [S -> Kinds] : S \in {T \in SUBSET cs : Cardinality(T) <= k} } }

\* ------------------------------------------------------------ the planner, called
Init == \E g \in GridsOf(MaxRows, MaxCols, MaxSpecial) : Loaded(g)

CallGetNeighbors ==
  \E cell \in Cells(grid) :
    /\ op = "init"
    /\ op' = "get_neighbors"
    /\ args' = cell
    /\ ret' = get_neighbors(grid, cell[1], cell[2])
    /\ UNCHANGED <<grid, mainVars>>

CallUcs ==
  \E start \in Cells(grid), goal \in Cells(grid) :
    /\ op = "init"
    /\ op' = "ucs"
    /\ args' = <<start, goal>>
    /\ ret' = ucs(grid, start, goal)
    /\ UNCHANGED <<grid, mainVars>>

CallSearchUcs ==
  \E start \in Cells(grid), goal \in Cells(grid) :
    /\ op = "init"
    /\ op' = "search_ucs"
    /\ args' = <<start, goal>>
    /\ ret' = search_ucs(grid, start, goal)
    /\ UNCHANGED <<grid, mainVars>>

Next == CallGetNeighbors \/ CallUcs \/ CallSearchUcs

Spec == Init /\ [][Next]_vars

\* Lists of distinct cells, at most n long.
RECURSIVE ListsUpTo(_, _)
ListsUpTo(S, n) ==
  IF n = 0 THEN { <<>> }
  ELSE LET shorter == ListsUpTo(S, n - 1)
       IN  shorter \cup { Append(l, x) : l \in {m \in shorter : Len(m) = n - 1},
                                         x \in S }

DistinctLists(S, n) ==
  { l \in ListsUpTo(S, n) : \A i, j \in 1 .. Len(l) : i # j => l[i] # l[j] }

PlanInit == \E g \in GridsOf(PlanRows, PlanCols, PlanSpecial) : Loaded(g)

CallFindBest ==
  \E start \in Cells(grid), treasures \in DistinctLists(Cells(grid), MaxTargets),
     return_to_start \in BOOLEAN :
    /\ op = "init"
    /\ op' = "find_best_treasure_path"
    /\ args' = <<start, treasures, return_to_start>>
    /\ ret' = find_best_treasure_path(grid, start, treasures, return_to_start)
    /\ UNCHANGED <<grid, mainVars>>

PlanNext == CallFindBest

SpecPlan == PlanInit /\ [][PlanNext]_vars

\* ------------------------------------------------------------ main
MaxTicks == 6
MaxEvents == 1
MaxClicks == 1

\* A loop body that counts every tile stood on as a treasure found.
Collect_anyTile(pos, all, collected) == collected \cup {pos}

\* map.py 308-309
Collect(pos, all, collected) ==
  IF pos \in all THEN collected \cup {pos} ELSE collected

\* map.py 312-315
HealthAfter(tile, h) ==
  IF tile \in TRAPS THEN h - 1
  ELSE IF tile \in REWARDS THEN (IF h + 1 < 10 THEN h + 1 ELSE 10)
  ELSE h

\* A trap 4 that wipes the tiles but forgets the set.
TreasuresAfterTrap4_setKept(tile, all, collected) == all

\* map.py 318-322: all_treasures once trap 4 has removed the uncollected ones.
TreasuresAfterTrap4(tile, all, collected) ==
  IF tile = "X4" THEN all \ {cell \in all : cell \notin collected} ELSE all

\* map.py 318-321: the grid once trap 4 has emptied their tiles.
GridAfterTrap4(tile, g, all, collected) ==
  IF tile = "X4"
  THEN [r \in 1 .. ROWS(g) |-> [c \in 1 .. COLS(g) |->
          IF <<r - 1, c - 1>> \in all /\ <<r - 1, c - 1>> \notin collected
          THEN EMPTY ELSE g[r][c]]]
  ELSE g

\* The events one call of pygame.event.get() may return.  A click is told by
\* whether pixel_to_hex finds a tile under it (map.py 349-350).
EventKinds == {"QUIT", "CLICK_ON_TILE", "CLICK_OFF_TILES", "KEYDOWN_SPACE", "KEYDOWN_OTHER"}

RECURSIVE EventLists(_)
EventLists(n) ==
  IF n = 0 THEN { <<>> }
  ELSE LET shorter == EventLists(n - 1)
       IN  shorter \cup { Append(l, e) : l \in {m \in shorter : Len(m) = n - 1},
                                         e \in EventKinds }

RECURSIVE CountOf(_, _)
CountOf(l, e) ==
  IF l = <<>> THEN 0 ELSE (IF Head(l) = e THEN 1 ELSE 0) + CountOf(Tail(l), e)

\* The cells of a set as a list, in row-major order.  Python iterates a set of
\* tuples in an order fixed by their hashes; the order of the list only
\* decides which of several equally cheap orderings the planner keeps.
RECURSIVE ListOf(_)
ListOf(S) ==
  IF S = {} THEN <<>>
  ELSE LET first == CHOOSE x \in S : \A y \in S :
                      x[1] < y[1] \/ (x[1] = y[1] /\ x[2] <= y[2])
       IN  <<first>> \o ListOf(S \ {first})

\* map.py 352
remaining_treasures(all, collected) == ListOf({t \in all : t \notin collected})

\* One event of the for-loop over the events (map.py 344-357); s holds the
\* locals player, path and running.
HandleEvent(g, all, collected, s, event) ==
  CASE event = "QUIT" -> [s EXCEPT !.running = FALSE]
    [] event = "CLICK_ON_TILE" ->
         LET remaining == remaining_treasures(all, collected)
         IN  IF remaining # <<>>
             THEN [s EXCEPT !.path = find_best_treasure_path(g, s.player, remaining, FALSE)]
             ELSE s
    [] event = "KEYDOWN_SPACE" ->
         IF s.path # <<>>
         THEN [s EXCEPT !.player = Head(s.path), !.path = Tail(s.path)]
         ELSE s
    [] OTHER -> s

RECURSIVE HandleEvents(_, _, _, _, _, _)
HandleEvents(g, all, collected, s, events, i) ==
  IF i > Len(events) THEN s
  ELSE HandleEvents(g, all, collected,
                    HandleEvent(g, all, collected, s, events[i]), events, i + 1)

\* map.py 361-366: the arrow keys in the order the dict lists them.
ArrowKeys == <<"UP", "DOWN", "LEFT", "RIGHT">>
Direction(key) ==
  CASE key = "UP" -> <<-1, 0>>
    [] key = "DOWN" -> <<1, 0>>
    [] key = "LEFT" -> <<0, -1>>
    [] key = "RIGHT" -> <<0, 1>>

\* map.py 367-372: the first pressed key moves the player, if the tile is free.
RECURSIVE ArrowMove(_, _, _, _)
ArrowMove(g, pos, keys, i) ==
  IF i > Len(ArrowKeys) THEN pos
  ELSE IF ArrowKeys[i] \in keys
       THEN LET nr == pos[1] + Direction(ArrowKeys[i])[1]
                nc == pos[2] + Direction(ArrowKeys[i])[2]
            IN  IF Passable(g, nr, nc) THEN <<nr, nc>> ELSE pos
       ELSE ArrowMove(g, pos, keys, i + 1)

\* One iteration of the while-loop of main (map.py 300-372): the tile's
\* effects, the game-over test, the events, the arrow keys.  The events are
\* handled once and their outcome s is then used as a value.
Tick ==
  /\ running
  /\ ticks < MaxTicks
  /\ \E events \in EventLists(MaxEvents) :
       /\ clicks + CountOf(events, "CLICK_ON_TILE") <= MaxClicks
       /\ LET tile       == Tile(grid, player)
              collected2 == Collect(player, all_treasures, collected_treasures)
              health2    == HealthAfter(tile, health)
              all2       == TreasuresAfterTrap4(tile, all_treasures, collected2)
              grid2      == GridAfterTrap4(tile, grid, all_treasures, collected2)
              over       == health2 <= 0 \/ collected2 = all2
          IN  \E s \in { HandleEvents(grid2, all2, collected2,
                                      [player |-> player, path |-> path,
                                       running |-> ~over],
                                      events, 1) } :
                /\ collected_treasures' = collected2
                /\ health' = health2
                /\ all_treasures' = all2
                /\ grid' = grid2
                /\ outcome' = IF over
                              THEN (IF health2 <= 0 THEN "Game Over"
                                                    ELSE "All Treasures Found!")
                              ELSE outcome
                /\ path' = s.path
                /\ running' = s.running
                /\ clicks' = clicks + CountOf(events, "CLICK_ON_TILE")
                /\ \E keys \in SUBSET Range(ArrowKeys) :
                     player' = ArrowMove(grid2, s.player, keys, 1)
  /\ ticks' = ticks + 1
  /\ UNCHANGED <<op, args, ret>>

MainInit == Loaded(GRID)

MainNext == Tick

SpecMain == MainInit /\ [][MainNext]_vars

\* ------------------------------------------------------------ reference notions
\* What the specification says, written without the program's operators.

Last(l) == l[Len(l)]

\* Spec 4.1: entering a cell costs 1.0, doubled on a trap kind, halved on a
\* reward kind (in halves).
SpecStepCost(tile) ==
  IF tile \in {"X1", "X2", "X3", "X4"} THEN 4
  ELSE IF tile \in {"R1", "R2"} THEN 1
  ELSE 2

\* Spec 4.1: the four cardinal candidates and the two diagonals of the column's
\* parity, kept when in bounds and not blocked.
RuleNeighbors(g, cell) ==
  LET r == cell[1]
      c == cell[2]
      cand == { <<r - 1, c>>, <<r + 1, c>>, <<r, c - 1>>, <<r, c + 1>> }
                \cup (IF c % 2 = 0 THEN { <<r - 1, c - 1>>, <<r - 1, c + 1>> }
                                   ELSE { <<r + 1, c - 1>>, <<r + 1, c + 1>> })
  IN  { n \in cand : n \in Cells(g) /\ Tile(g, n) # BLOCKED }

ExtMin(S) ==
  IF S \ {INF} = {} THEN INF
  ELSE CHOOSE m \in S \ {INF} : \A x \in S \ {INF} : m <= x

ExtAdd(a, b) == IF a = INF \/ b = INF THEN INF ELSE a + b

CellOf(g, k) == <<(k - 1) \div COLS(g), (k - 1) % COLS(g)>>
IndexOf(g, cell) == cell[1] * COLS(g) + cell[2] + 1
NumCells(g) == ROWS(g) * COLS(g)

\* For each cell in index order: the cells it can be entered from.
RECURSIVE OutSets(_, _)
OutSets(g, k) ==
  IF k > NumCells(g) THEN <<>>
  ELSE << RuleNeighbors(g, CellOf(g, k)) >> \o OutSets(g, k + 1)

RECURSIVE EnteredFrom(_, _, _)
EnteredFrom(g, out, k) ==
  IF k > NumCells(g) THEN <<>>
  ELSE << { u \in 1 .. NumCells(g) : CellOf(g, k) \in out[u] } >>
         \o EnteredFrom(g, out, k + 1)

\* One more step allowed: the cheapest walk to each cell that is at most one
\* cell longer than those d accounts for.
RECURSIVE OneMoreStep(_, _, _, _)
OneMoreStep(g, from, d, k) ==
  IF k > NumCells(g) THEN <<>>
  ELSE << ExtMin({d[k]} \cup { ExtAdd(d[u], SpecStepCost(Tile(g, CellOf(g, k)))) :
                                 u \in from[k] }) >>
         \o OneMoreStep(g, from, d, k + 1)

RECURSIVE WalkCosts(_, _, _, _, _)
WalkCosts(g, from, d, next, n) ==
  IF n = 0 \/ next = d THEN next
  ELSE WalkCosts(g, from, next, OneMoreStep(g, from, next, 1), n - 1)

RECURSIVE OnlyStart(_, _, _)
OnlyStart(g, start, k) ==
  IF k > NumCells(g) THEN <<>>
  ELSE << IF CellOf(g, k) = start THEN 0 ELSE INF >> \o OnlyStart(g, start, k + 1)

MinCostsFrom(g, from, d0) == WalkCosts(g, from, d0, OneMoreStep(g, from, d0, 1), NumCells(g))

\* The least summed step cost of the cells entered, over all walks from start
\* to goal that enter only non-blocked cells; INF when there is none.  A
\* cheapest walk repeats no cell, so walks of at most NumCells steps suffice.
MinCost(g, start, goal) ==
  MinCostsFrom(g, EnteredFrom(g, OutSets(g, 1), 1), OnlyStart(g, start, 1))[IndexOf(g, goal)]

RECURSIVE PathCost(_, _)
PathCost(g, p) ==
  IF p = <<>> THEN 0 ELSE SpecStepCost(Tile(g, Head(p))) + PathCost(g, Tail(p))

\* p leads from start cell by cell, each cell a neighbour of the one before.
IsWalk(g, start, p) ==
  \A i \in 1 .. Len(p) : p[i] \in RuleNeighbors(g, IF i = 1 THEN start ELSE p[i - 1])

NoDuplicates(l) == \A i, j \in 1 .. Len(l) : i # j => l[i] # l[j]

\* Every ordering of the cells of a list of distinct cells.
Orderings(l) == { o \in DistinctLists(Range(l), Len(l)) : Len(o) = Len(l) }

\* The summed least segment costs of visiting order from start, in order,
\* and then start again when back is set.
RECURSIVE ChainCost(_, _, _, _, _)
ChainCost(g, from, order, back, home) ==
  IF order = <<>> THEN (IF back THEN MinCost(g, from, home) ELSE 0)
  ELSE ExtAdd(MinCost(g, from, Head(order)),
              ChainCost(g, Head(order), Tail(order), back, home))

\* The segments of order as ucs returns them, one after the other.
RECURSIVE ChainPath(_, _, _, _, _)
ChainPath(g, from, order, back, home) ==
  IF order = <<>> THEN (IF back THEN ucs(g, from, home).path ELSE <<>>)
  ELSE ucs(g, from, Head(order)).path
         \o ChainPath(g, Head(order), Tail(order), back, home)

\* ------------------------------------------------------------ claims: single-pair search

\* C1: when goal can be reached from start, the cost ucs returns is the least
\* cost of any walk from start to goal through non-blocked cells.
C1_UcsCostIsMinimal ==
  op = "ucs"
    => LET least == MinCost(grid, args[1], args[2])
       IN  least # INF => ret.cost = least

\* A search whose cheapest route is not a straight one: three or more cells
\* long, through a reward, on a grid that also has a trap.
C1_Witness ==
  /\ op = "ucs"
  /\ Len(ret.path) >= 3
  /\ ret.cost = MinCost(grid, args[1], args[2])
  /\ \E i \in 1 .. Len(ret.path) : Tile(grid, ret.path[i]) \in REWARDS
  /\ \E cell \in Cells(grid) : Tile(grid, cell) \in TRAPS

\* C3 as stated: a blocked or unreachable goal gives ([], inf), whatever the
\* start.
C3_SentinelForAnyStart ==
  op = "ucs" /\ (Tile(grid, args[2]) = BLOCKED \/ MinCost(grid, args[1], args[2]) = INF)
    => ret = [path |-> <<>>, cost |-> INF]

\* C3, amended: for a goal other than the start, a blocked or unreachable
\* goal gives ([], inf).
C3_SentinelWhenGoalIsNotStart ==
  /\ op = "ucs"
  /\ args[1] # args[2]
  /\ (Tile(grid, args[2]) = BLOCKED \/ MinCost(grid, args[1], args[2]) = INF)
  => ret = [path |-> <<>>, cost |-> INF]

\* A goal that is free but walled off from the start.
C3_Witness ==
  /\ op = "ucs"
  /\ args[1] # args[2]
  /\ Tile(grid, args[1]) # BLOCKED
  /\ Tile(grid, args[2]) # BLOCKED
  /\ MinCost(grid, args[1], args[2]) = INF
  /\ ret = [path |-> <<>>, cost |-> INF]

\* C4: between non-blocked cells adjacency is symmetric: B is a neighbour of A
\* exactly when A is a neighbour of B.
C4_AdjacencySymmetric ==
  op = "get_neighbors" /\ Tile(grid, args) # BLOCKED
    => \A B \in Cells(grid) :
         Tile(grid, B) # BLOCKED
           => (B \in Range(ret) <=> args \in Range(get_neighbors(grid, B[1], B[2])))

\* An odd-column cell on the top edge with its diagonal neighbour below.
C4_Witness ==
  /\ op = "get_neighbors"
  /\ args = <<0, 1>>
  /\ Tile(grid, args) # BLOCKED
  /\ <<1, 0>> \in Range(ret)
  /\ <<1, 2>> \in Range(ret)

\* C5: get_neighbors returns exactly the in-bounds, non-blocked cells of the
\* parity rule, none twice, at most 6.
C5_NeighborsAreTheRule ==
  op = "get_neighbors"
    => /\ Range(ret) = RuleNeighbors(grid, args)
       /\ NoDuplicates(ret)
       /\ Len(ret) <= 6
       /\ \A i \in 1 .. Len(ret) : ret[i] \in Cells(grid) /\ Tile(grid, ret[i]) # BLOCKED

\* The middle cell with one of its six neighbours blocked.
C5_Witness ==
  /\ op = "get_neighbors"
  /\ args = <<1, 1>>
  /\ Len(ret) = 5
  /\ \E cell \in Cells(grid) : Tile(grid, cell) = BLOCKED

\* C6: a non-empty path leaves out the start, ends with the goal, goes from
\* neighbour to neighbour beginning next to the start, holds no blocked cell,
\* and its cost is the sum of the step costs of its cells.
C6_PathIsAChargedWalk ==
  op = "ucs" /\ ret.path # <<>>
    => /\ args[1] \notin Range(ret.path)
       /\ Last(ret.path) = args[2]
       /\ IsWalk(grid, args[1], ret.path)
       /\ \A i \in 1 .. Len(ret.path) : Tile(grid, ret.path[i]) # BLOCKED
       /\ ret.cost = PathCost(grid, ret.path)

\* A path of two or more cells over a trap.
C6_Witness ==
  /\ op = "ucs"
  /\ Len(ret.path) >= 2
  /\ \E i \in 1 .. Len(ret.path) : Tile(grid, ret.path[i]) \in TRAPS
  /\ ret.cost = PathCost(grid, ret.path)

\* C7: both searches charge 1.0, 2.0 on any trap kind and 0.5 on a reward
\* kind, so the search of search.py returns the cost the search of map.py
\* returns.
C7_BothSearchesChargeAlike ==
  /\ op \in {"ucs", "search_ucs"} /\ ret.path # <<>>
       => ret.cost = PathCost(grid, ret.path)
  /\ op = "search_ucs" => ret.cost = ucs(grid, args[1], args[2]).cost

\* ------------------------------------------------------------ claims: route planner

\* C2: from a free start, with every target reachable, the cost of the
\* returned path is the least chained cost over all orderings of the targets.
C2_RouteCostIsLeastOverOrderings ==
  /\ op = "find_best_treasure_path"
  /\ Tile(grid, args[1]) # BLOCKED
  /\ \A i \in 1 .. Len(args[2]) : MinCost(grid, args[1], args[2][i]) # INF
  => PathCost(grid, ret) =
       ExtMin({ ChainCost(grid, args[1], o, args[3], args[1]) : o \in Orderings(args[2]) })

\* C8: no targets, or a target that cannot be reached, or (returning) a start
\* that cannot be reached back, gives the empty path; a non-empty path visits
\* every target, and the start last when returning.
C8_EmptyPathOrCompleteRoute ==
  op = "find_best_treasure_path"
    => /\ args[2] = <<>> => ret = <<>>
       /\ (\E i \in 1 .. Len(args[2]) : MinCost(grid, args[1], args[2][i]) = INF)
            => ret = <<>>
       /\ (/\ args[3]
           /\ args[2] # <<>>
           /\ \A i \in 1 .. Len(args[2]) : MinCost(grid, args[2][i], args[1]) = INF)
            => ret = <<>>
       /\ ret # <<>>
            => /\ Range(args[2]) \subseteq Range(ret)
               /\ args[3] => Last(ret) = args[1]

\* Two targets from a free start, one of them free but walled off.
C8_Witness ==
  /\ op = "find_best_treasure_path"
  /\ Len(args[2]) = 2
  /\ Tile(grid, args[1]) # BLOCKED
  /\ \E i \in 1 .. 2 :
       /\ Tile(grid, args[2][i]) # BLOCKED
       /\ MinCost(grid, args[1], args[2][i]) = INF
  /\ \E i \in 1 .. 2 : MinCost(grid, args[1], args[2][i]) \notin {INF, 0}
  /\ ret = <<>>

\* C9: a non-empty route is the segments of one ordering in order: it holds
\* every target, goes from neighbour to neighbour beginning next to the start,
\* holds no blocked cell, and ends with the ordering's last target, or with the
\* start when returning.
C9_RouteIsOneOrderingsSegments ==
  op = "find_best_treasure_path" /\ ret # <<>>
    => /\ Range(args[2]) \subseteq Range(ret)
       /\ IsWalk(grid, args[1], ret)
       /\ \A i \in 1 .. Len(ret) : Tile(grid, ret[i]) # BLOCKED
       /\ \E o \in Orderings(args[2]) :
            /\ ret = ChainPath(grid, args[1], o, args[3], args[1])
            /\ Last(ret) = IF args[3] THEN args[1] ELSE Last(o)

\* A round trip over two targets.
C9_Witness ==
  /\ op = "find_best_treasure_path"
  /\ Len(args[2]) = 2
  /\ args[3]
  /\ Len(ret) >= 4
  /\ Last(ret) = args[1]

\* ------------------------------------------------------------ claims: game loop

====
